---- MODULE Spec2Model ----
(***************************************************************************)
(* Model of src/streamlit_app.py: the GDP dashboard's data pipeline.       *)
(*                                                                         *)
(*   load_data : read_csv -> melt (wide to long) -> to_numeric -> scale    *)
(*   main      : sidebar inputs -> boolean-mask filter -> empty warning    *)
(*               -> pivot_table(aggfunc="sum") -> growth metrics           *)
(*                                                                         *)
(* pandas values are modelled by what the library computes: a float is a   *)
(* record [k, n, d] that is NaN, +inf, -inf or the rational n/d; a cell of *)
(* an object-dtype column is a "str" value that arithmetic rejects.        *)
(* Text (year labels, CSV cells) is a sequence of one-character strings.   *)
(***************************************************************************)
EXTENDS Integers, Sequences, FiniteSets, TLC

\* ------------------------------------------------------------------ bounds
\* number of year columns the model keeps of the code's range(1960, 2023)
NumYears == 2
\* largest number of data rows in the CSV file
MaxRows == 2

\* --------------------------------------------------------- program constants
\* range(1960, 2023) starts here
YearLo == 1960
YearHi == YearLo + NumYears - 1
\* df_melted["GDP"] / 1e9
ScaleFactor == 1000000000

CountryNames == {"France", "Germany"}
\* "Country Code" of the i-th data row; codes are unique across the table
CodePool == <<"FRA", "DEU", "USA", "CHN">>

ERR_NONE == "none"
ERR_NOT_FOUND == "Fichier introuvable"
ERR_LOADING == "Erreur de chargement"
WARN_EMPTY == "Aucune donnee disponible avec ces filtres"

\* ------------------------------------------------------------------- text
DigitChars == <<"0", "1", "2", "3", "4", "5", "6", "7", "8", "9">>

IsDigit(c) == \E i \in 1..10 : DigitChars[i] = c

DigitVal(c) == (CHOOSE i \in 1..10 : DigitChars[i] = c) - 1

RECURSIVE Str(_)
\* str(y) for a non-negative integer
Str(n) == IF n < 10 THEN <<DigitChars[n + 1]>>
          ELSE Str(n \div 10) \o <<DigitChars[(n % 10) + 1]>>

IsNumeric(s) == Len(s) > 0 /\ \A i \in 1..Len(s) : IsDigit(s[i])

RECURSIVE ParseInt(_)
ParseInt(s) == IF Len(s) = 0 THEN 0
               ELSE 10 * ParseInt(SubSeq(s, 1, Len(s) - 1)) + DigitVal(s[Len(s)])

\* ------------------------------------------------------------------ floats
NaN == [k |-> "nan", n |-> 0, d |-> 1]
PosInf == [k |-> "inf", n |-> 0, d |-> 1]
NegInf == [k |-> "-inf", n |-> 0, d |-> 1]
\* a Python str held in an object-dtype column
StrVal == [k |-> "str", n |-> 0, d |-> 1]

RECURSIVE Gcd(_, _)
Gcd(a, b) == IF b = 0 THEN a ELSE Gcd(b, a % b)

Abs(x) == IF x < 0 THEN -x ELSE x

\* the rational n/d in lowest terms, d > 0
Num(n, d) ==
    LET g == Gcd(Abs(n), Abs(d))
        s == IF d < 0 THEN -1 ELSE 1
    IN [k |-> "num", n |-> s * (n \div g), d |-> s * (d \div g)]

IsNum(x) == x.k = "num"
IsNaN(x) == x.k = "nan"
IsZero(x) == x.k = "num" /\ x.n = 0

\* float addition
Add(a, b) ==
    IF IsNaN(a) \/ IsNaN(b) THEN NaN
    ELSE IF ~IsNum(a) THEN (IF ~IsNum(b) /\ b # a THEN NaN ELSE a)
    ELSE IF ~IsNum(b) THEN b
    ELSE LET g == Gcd(a.d, b.d)
         IN Num(a.n * (b.d \div g) + b.n * (a.d \div g), (a.d \div g) * b.d)

\* float multiplication
Mul(a, b) ==
    IF IsNaN(a) \/ IsNaN(b) THEN NaN
    ELSE IF ~IsNum(a) \/ ~IsNum(b)
         THEN (IF IsZero(a) \/ IsZero(b) THEN NaN
               ELSE LET neg(x) == x.k = "-inf" \/ (IsNum(x) /\ x.n < 0)
                    IN IF neg(a) = neg(b) THEN PosInf ELSE NegInf)
    ELSE LET g1 == Gcd(Abs(a.n), b.d)
             g2 == Gcd(Abs(b.n), a.d)
         IN Num((a.n \div g1) * (b.n \div g2), (a.d \div g2) * (b.d \div g1))

\* numpy float64 division: x/0 is +-inf, 0/0 is nan, nothing is raised
Div(a, b) ==
    IF IsNaN(a) \/ IsNaN(b) THEN NaN
    ELSE IF IsZero(b)
         THEN (IF IsZero(a) THEN NaN
               ELSE IF a.k = "-inf" \/ (IsNum(a) /\ a.n < 0) THEN NegInf
               ELSE PosInf)
    ELSE IF ~IsNum(b) THEN (IF IsNum(a) THEN Num(0, 1) ELSE NaN)
    ELSE IF ~IsNum(a) THEN (IF (a.k = "inf") = (b.n > 0) THEN PosInf ELSE NegInf)
    ELSE Mul(a, Num(b.d, b.n))

\* --------------------------------------------------------------- the file
\* years = [str(y) for y in range(1960, 2023)], NumYears of them
years == [j \in 1..NumYears |-> Str(YearLo + j - 1)]

YearLabels == {years[j] : j \in 1..NumYears}

\* what a year cell of the file may hold: nothing or a number ...
NumberTexts == {<<>>, <<"1">>}

\* ... or text that is not a number
OddText == <<".", ".">>

\* data rows with year columns cols, in file order, every cell a number or
\* empty; the first row is France (the code only compares names, so which
\* name comes first does not matter)
CleanRows(cols) ==
    {r \in UNION {[1..n -> [name : CountryNames, cells : [cols -> NumberTexts]]] :
                     n \in 0..MaxRows} :
        Len(r) > 0 => r[1].name = "France"}

\* the files DATA_PATH may name: absent, not parseable as CSV, or a table
\* with the four identity columns, some of the year columns and some rows
MissingFile == [kind |-> "missing", cols |-> {}, rows |-> <<>>]

MalformedFile == [kind |-> "malformed", cols |-> {}, rows |-> <<>>]

Table(cols, rows) == [kind |-> "table", cols |-> cols, rows |-> rows]

\* file is one of them; a table has at most one cell of odd text
IsCsvFile(file) ==
    \/ file = MissingFile
    \/ file = MalformedFile
    \/ \E cols \in SUBSET YearLabels : \E rows \in CleanRows(cols) :
          \/ file = Table(cols, rows)
          \/ \E i \in 1..Len(rows) : \E col \in cols :
                file = Table(cols, [rows EXCEPT ![i].cells[col] = OddText])

\* ---------------------------------------------------------------- load_data
\* pd.read_csv infers one dtype per column: float64 when every cell is a
\* number or empty (empty reads as NaN), object otherwise (cells stay str)
NumericColumn(file, col) ==
    \A i \in 1..Len(file.rows) :
        file.rows[i].cells[col] = <<>> \/ IsNumeric(file.rows[i].cells[col])

ReadCell(file, i, col) ==
    LET text == file.rows[i].cells[col]
    IN IF text = <<>> THEN NaN
       ELSE IF NumericColumn(file, col) THEN Num(ParseInt(text), 1)
       ELSE StrVal

\* pd.read_csv(DATA_PATH): the exception it raises, or the wide frame
read_csv(file) ==
    IF file.kind = "missing"
    THEN [raised |-> "FileNotFoundError", columns |-> {}, rows |-> <<>>]
    ELSE IF file.kind = "malformed"
    THEN [raised |-> "ParserError", columns |-> {}, rows |-> <<>>]
    ELSE [raised |-> "",
          columns |-> file.cols,
          rows |-> [i \in 1..Len(file.rows) |->
                      [name |-> file.rows[i].name,
                       code |-> CodePool[i],
                       cells |-> [col \in file.cols |-> ReadCell(file, i, col)]]]]

\* a melt that stacks row by row instead of column by column
meltByRow(df) ==
    IF \E j \in 1..NumYears : years[j] \notin df.columns
    THEN [raised |-> "KeyError", rows |-> <<>>]
    ELSE LET n == Len(df.rows)
         IN [raised |-> "",
             rows |-> [p \in 1..(n * NumYears) |->
                         LET i == ((p - 1) \div NumYears) + 1
                             j == ((p - 1) % NumYears) + 1
                         IN [name |-> df.rows[i].name,
                             code |-> df.rows[i].code,
                             Year |-> years[j],
                             GDP |-> df.rows[i].cells[years[j]]]]]

\* df.melt(id_vars, value_vars=years, var_name="Year", value_name="GDP"):
\* KeyError when a value_var is not a column; otherwise the value columns
\* are stacked one after the other, each in row order
melt(df) ==
    IF \E j \in 1..NumYears : years[j] \notin df.columns
    THEN [raised |-> "KeyError", rows |-> <<>>]
    ELSE LET n == Len(df.rows)
         IN [raised |-> "",
             rows |-> [p \in 1..(n * NumYears) |->
                         LET j == ((p - 1) \div n) + 1
                             i == ((p - 1) % n) + 1
                         IN [name |-> df.rows[i].name,
                             code |-> df.rows[i].code,
                             Year |-> years[j],
                             GDP |-> df.rows[i].cells[years[j]]]]]

\* pd.to_numeric on a year label
to_numeric(label) == ParseInt(label)

\* df_melted["GDP"] / 1e9 raises TypeError on a str operand
ScaleRaises(rows) == \E p \in 1..Len(rows) : rows[p].GDP.k = "str"

Scale(gdp) == Div(gdp, Num(ScaleFactor, 1))

\* the long frame after lines 33-34
Processed(rows) ==
    [p \in 1..Len(rows) |->
        [name |-> rows[p].name,
         code |-> rows[p].code,
         Year |-> to_numeric(rows[p].Year),
         GDP |-> rows[p].GDP,
         GDP_Mds |-> Scale(rows[p].GDP)]]

\* load_data(): what the try block raises ("" when it returns) and the
\* pair (df, df_melted) it returns
load_data(file) ==
    LET df == read_csv(file)
        melted == melt(df)
    IN IF df.raised # ""
       THEN [raised |-> df.raised, raw |-> <<>>, processed |-> <<>>]
       ELSE IF melted.raised # ""
       THEN [raised |-> melted.raised, raw |-> <<>>, processed |-> <<>>]
       ELSE IF ScaleRaises(melted.rows)
       THEN [raised |-> "TypeError", raw |-> <<>>, processed |-> <<>>]
       ELSE [raised |-> "", raw |-> df.rows, processed |-> Processed(melted.rows)]

\* a single except clause for every exception
ErrorMessageGeneric(raised) == IF raised = "" THEN ERR_NONE ELSE ERR_LOADING

\* the except clauses of load_data: the st.error text shown before st.stop()
ErrorMessage(raised) ==
    IF raised = "" THEN ERR_NONE
    ELSE IF raised = "FileNotFoundError" THEN ERR_NOT_FOUND
    ELSE ERR_LOADING

\* --------------------------------------------------------------------- main
\* Series.isin(selected_countries) on "Country Name"
isin(name, selected) == name \in selected

\* between with inclusive="neither"
betweenExclusive(year, left, right) == left < year /\ year < right

\* Series.between(left, right), inclusive="both"
between(year, left, right) == left <= year /\ year <= right

\* processed_df[isin & between]: a new frame, rows kept in order
Filter(frame, selected, range) ==
    SelectSeq(frame, LAMBDA r : isin(r.name, selected) /\ between(r.Year, range[1], range[2]))

\* lines 93-100: what the caller of the filter step observes, the frame and
\* the warning shown when the frame is empty
FilterOutcome(frame, selected, range) ==
    LET result == Filter(frame, selected, range)
    IN [frame |-> result,
        warning |-> IF Len(result) = 0 THEN WARN_EMPTY ELSE ERR_NONE]

NameSet(frame) == {frame[p].name : p \in 1..Len(frame)}

YearSet(frame) == {frame[p].Year : p \in 1..Len(frame)}

RECURSIVE Ascending(_)
\* the sorted axis of a set of years
Ascending(S) ==
    IF S = {} THEN <<>>
    ELSE LET m == CHOOSE x \in S : \A y \in S : x <= y
         IN <<m>> \o Ascending(S \ {m})

RECURSIVE GroupLast(_, _, _)
\* aggfunc="last": the last present value of the group
GroupLast(frame, name, year) ==
    IF Len(frame) = 0 THEN NaN
    ELSE LET r == frame[Len(frame)]
         IN IF r.name = name /\ r.Year = year /\ ~IsNaN(r.GDP_Mds)
            THEN r.GDP_Mds
            ELSE GroupLast(SubSeq(frame, 1, Len(frame) - 1), name, year)

RECURSIVE GroupSum(_, _, _)
\* groupby(["Country Name", "Year"]).sum() for one group: NaN is skipped
\* and the sum of nothing is 0
GroupSum(frame, name, year) ==
    IF Len(frame) = 0 THEN Num(0, 1)
    ELSE LET r == frame[Len(frame)]
             rest == GroupSum(SubSeq(frame, 1, Len(frame) - 1), name, year)
         IN IF r.name = name /\ r.Year = year /\ ~IsNaN(r.GDP_Mds)
            THEN Add(rest, r.GDP_Mds)
            ELSE rest

\* one cell of the unstacked table: NaN where the group does not exist
PivotCell(frame, name, year) ==
    IF \E p \in 1..Len(frame) : frame[p].name = name /\ frame[p].Year = year
    THEN GroupSum(frame, name, year)
    ELSE NaN

\* filtered_df.pivot_table(index="Country Name", columns="Year",
\* values="GDP (Milliards $)", aggfunc="sum"), dropna=True: columns that
\* are NaN in every row are dropped
pivot_table(frame) ==
    LET names == NameSet(frame)
        kept == {y \in YearSet(frame) : \E c \in names : ~IsNaN(PivotCell(frame, c, y))}
    IN [index |-> names,
        columns |-> Ascending(kept),
        cells |-> [c \in names |-> [y \in kept |-> PivotCell(frame, c, y)]]]

NoPivot == [index |-> {}, columns |-> <<>>, cells |-> [c \in {} |-> NaN]]

NoMetrics == [c \in {} |-> NaN]

\* growth = (current_gdp / previous_gdp - 1) * 100
GrowthPct(current_gdp, previous_gdp) ==
    Mul(Add(Div(current_gdp, previous_gdp), Num(-1, 1)), Num(100, 1))

\* the loop with the two reference columns exchanged
MetricsSwappedYears(pivot, selected) ==
    [country \in {c \in selected : c \in pivot.index} |->
        LET latest_year == pivot.columns[1]
            prev_year == pivot.columns[Len(pivot.columns)]
            current_gdp == pivot.cells[country][latest_year]
            previous_gdp == pivot.cells[country][prev_year]
        IN [prev_year |-> prev_year,
            latest_year |-> latest_year,
            current_gdp |-> current_gdp,
            previous_gdp |-> previous_gdp,
            growth |-> GrowthPct(current_gdp, previous_gdp)]]

\* the loop of lines 129-145: one st.metric per selected country that is
\* in the pivot's index
Metrics(pivot, selected) ==
    [country \in {c \in selected : c \in pivot.index} |->
        LET latest_year == pivot.columns[Len(pivot.columns)]
            prev_year == pivot.columns[1]
            current_gdp == pivot.cells[country][latest_year]
            previous_gdp == pivot.cells[country][prev_year]
        IN [prev_year |-> prev_year,
            latest_year |-> latest_year,
            current_gdp |-> current_gdp,
            previous_gdp |-> previous_gdp,
            growth |-> GrowthPct(current_gdp, previous_gdp)]]

\* --------------------------------------------------------------------- state
VARIABLES
    csv,                 \* the file at DATA_PATH
    pc,                  \* where the script run is
    message,             \* the st.error / st.warning text shown, if any
    raw_df,              \* load_data()[0]
    processed_df,        \* load_data()[1]
    selected_countries,  \* the multiselect's value
    year_range,          \* the slider's value
    filtered_df,
    pivot_df,
    metrics,             \* the st.metric calls of this run, by country
    repeat,              \* this run repeats the previous run's widget values
    prev_filtered        \* filtered_df of the previous run

vars == <<csv, pc, message, raw_df, processed_df, selected_countries, year_range,
          filtered_df, pivot_df, metrics, repeat, prev_filtered>>

Init ==
    /\ IsCsvFile(csv)
    /\ pc = "start"
    /\ message = ERR_NONE
    /\ raw_df = <<>>
    /\ processed_df = <<>>
    /\ selected_countries = {}
    /\ year_range = <<YearLo, YearLo>>
    /\ filtered_df = <<>>
    /\ pivot_df = NoPivot
    /\ metrics = NoMetrics
    /\ repeat = FALSE
    /\ prev_filtered = <<>>

\* st.stop() after st.error ends the run; a returned pair lets main go on
AfterLoad(raised) == IF raised = "" THEN "loaded" ELSE "stopped"

\* line 53: raw_df, processed_df = load_data()
LoadData ==
    /\ pc = "start"
    /\ LET r == load_data(csv)
       IN /\ raw_df' = r.raw
          /\ processed_df' = r.processed
          /\ message' = ErrorMessage(r.raised)
          /\ pc' = AfterLoad(r.raised)
    /\ UNCHANGED <<csv, selected_countries, year_range, filtered_df, pivot_df,
                   metrics, repeat, prev_filtered>>

\* lines 70-85: the widgets return a subset of the available countries and
\* a range inside [min_year, max_year]
Sidebar ==
    /\ pc = "loaded"
    /\ Len(processed_df) > 0
    /\ LET available_countries == NameSet(processed_df)
           min_year == CHOOSE y \in YearSet(processed_df) : \A z \in YearSet(processed_df) : y <= z
           max_year == CHOOSE y \in YearSet(processed_df) : \A z \in YearSet(processed_df) : y >= z
       IN /\ selected_countries' \in SUBSET available_countries
          /\ year_range' \in {<<lo, hi>> : lo \in min_year..max_year, hi \in min_year..max_year}
          /\ year_range'[1] <= year_range'[2]
    /\ pc' = "sidebar"
    /\ UNCHANGED <<csv, message, raw_df, processed_df, filtered_df, pivot_df,
                   metrics, repeat, prev_filtered>>

\* line 79 on a table without rows: int(NaN) raises ValueError in main
SidebarRaises ==
    /\ pc = "loaded"
    /\ Len(processed_df) = 0
    /\ pc' = "crashed"
    /\ UNCHANGED <<csv, message, raw_df, processed_df, selected_countries, year_range,
                   filtered_df, pivot_df, metrics, repeat, prev_filtered>>

\* a filter that assigns the mask's result back to processed_df
FilterDataInPlace ==
    /\ pc = "sidebar"
    /\ filtered_df' = Filter(processed_df, selected_countries, year_range)
    /\ processed_df' = filtered_df'
    /\ pc' = "filtered"
    /\ UNCHANGED <<csv, message, raw_df, selected_countries, year_range,
                   pivot_df, metrics, repeat, prev_filtered>>

\* lines 93-96
FilterData ==
    /\ pc = "sidebar"
    /\ filtered_df' = Filter(processed_df, selected_countries, year_range)
    /\ pc' = "filtered"
    /\ UNCHANGED <<csv, message, raw_df, processed_df, selected_countries, year_range,
                   pivot_df, metrics, repeat, prev_filtered>>

\* lines 98-100: if filtered_df.empty: st.warning(...); return
WarnEmpty ==
    /\ pc = "filtered"
    /\ Len(filtered_df) = 0
    /\ message' = FilterOutcome(processed_df, selected_countries, year_range).warning
    /\ pc' = "returned"
    /\ UNCHANGED <<csv, raw_df, processed_df, selected_countries, year_range,
                   filtered_df, pivot_df, metrics, repeat, prev_filtered>>

\* lines 120-125
PivotTable ==
    /\ pc = "filtered"
    /\ Len(filtered_df) > 0
    /\ pivot_df' = pivot_table(filtered_df)
    /\ pc' = "pivoted"
    /\ UNCHANGED <<csv, message, raw_df, processed_df, selected_countries, year_range,
                   filtered_df, metrics, repeat, prev_filtered>>

\* lines 128-145
ShowMetrics ==
    /\ pc = "pivoted"
    /\ metrics' = Metrics(pivot_df, selected_countries)
    /\ pc' = "done"
    /\ UNCHANGED <<csv, message, raw_df, processed_df, selected_countries, year_range,
                   filtered_df, pivot_df, repeat, prev_filtered>>

\* the script reruns on an interaction that leaves the filters as they are
\* (a checkbox): load_data is served from st.cache_data, the widgets return
\* the same values
RerunSameFilters ==
    /\ pc \in {"done", "returned"}
    /\ repeat' = TRUE
    /\ prev_filtered' = filtered_df
    /\ filtered_df' = <<>>
    /\ pivot_df' = NoPivot
    /\ metrics' = NoMetrics
    /\ message' = ERR_NONE
    /\ pc' = "sidebar"
    /\ UNCHANGED <<csv, raw_df, processed_df, selected_countries, year_range>>

\* the script reruns because a filter widget changed
RerunNewFilters ==
    /\ pc \in {"done", "returned"}
    /\ repeat' = FALSE
    /\ prev_filtered' = <<>>
    /\ filtered_df' = <<>>
    /\ pivot_df' = NoPivot
    /\ metrics' = NoMetrics
    /\ message' = ERR_NONE
    /\ selected_countries' = {}
    /\ year_range' = <<YearLo, YearLo>>
    /\ pc' = "loaded"
    /\ UNCHANGED <<csv, raw_df, processed_df>>

Next ==
    \/ LoadData
    \/ Sidebar
    \/ SidebarRaises
    \/ FilterData
    \/ WarnEmpty
    \/ PivotTable
    \/ ShowMetrics
    \/ RerunSameFilters
    \/ RerunNewFilters

Spec == Init /\ [][Next]_vars

\* ==================================================================== claims
Filtered == pc \in {"filtered", "returned", "pivoted", "done"}

Loaded == pc \notin {"start", "stopped"}

\* the file row a long record comes from (codes are unique)
RowOf(r) == CHOOSE i \in 1..Len(raw_df) : raw_df[i].code = r.code

\* the entity codes the selection stands for
SelectedCodes == {raw_df[i].code : i \in {k \in 1..Len(raw_df) : raw_df[k].name \in selected_countries}}

Matches(r) ==
    r.code \in SelectedCodes /\ year_range[1] <= r.Year /\ r.Year <= year_range[2]

\* C1: with a non-empty selection and lo <= hi, the filter step returns
\* exactly the records of the selected entities whose year lies in
\* [lo, hi], both bounds included: none omitted, none extra, none repeated.
C1_FilterExact ==
    (Filtered /\ selected_countries # {} /\ year_range[1] <= year_range[2]) =>
        /\ \A p \in 1..Len(filtered_df) :
              /\ Matches(filtered_df[p])
              /\ \E q \in 1..Len(processed_df) : processed_df[q] = filtered_df[p]
        /\ \A q \in 1..Len(processed_df) :
              Matches(processed_df[q]) =>
                  \E p \in 1..Len(filtered_df) : filtered_df[p] = processed_df[q]
        /\ Len(filtered_df) = Cardinality({q \in 1..Len(processed_df) : Matches(processed_df[q])})

C1_Witness ==
    /\ pc = "filtered"
    /\ selected_countries # {}
    /\ year_range[1] = year_range[2]
    /\ Len(filtered_df) > 0
    /\ Len(filtered_df) < Len(processed_df)
    /\ \E q \in 1..Len(processed_df) :
          processed_df[q].name \notin selected_countries
    /\ \E q \in 1..Len(processed_df) :
          processed_df[q].name \in selected_countries /\ processed_df[q].Year # year_range[1]

\* C2: the outcome of filtering with an empty selection differs from the
\* outcome of every non-empty selection that matches no record.
C2_EmptySelectionDistinct ==
    (pc = "returned" /\ selected_countries = {}) =>
        \A s \in SUBSET (CountryNames \cup {"XXX"}) :
            (s # {} /\ Len(Filter(processed_df, s, year_range)) = 0) =>
                FilterOutcome(processed_df, s, year_range)
                    # [frame |-> filtered_df, warning |-> message]

\* C3: growth is none whenever the start value is missing or zero or the
\* end value is missing, never infinity or NaN, and otherwise
\* (end / start - 1) * 100.
C3_GrowthGuarded ==
    pc = "done" =>
        \A c \in DOMAIN metrics :
            LET m == metrics[c]
            IN IF IsNaN(m.previous_gdp) \/ IsZero(m.previous_gdp) \/ IsNaN(m.current_gdp)
               THEN m.growth.k = "none"
               ELSE /\ IsNum(m.growth)
                    /\ Add(m.growth, Num(100, 1))
                         = Mul(Div(m.current_gdp, m.previous_gdp), Num(100, 1))

\* the year cells of the file are all numbers or empty
AllCellsParse ==
    \A i \in 1..Len(csv.rows) : \A col \in csv.cols :
        csv.rows[i].cells[col] = <<>> \/ IsNumeric(csv.rows[i].cells[col])

RecordsOf(i, y) ==
    {p \in 1..Len(processed_df) : processed_df[p].code = CodePool[i] /\ processed_df[p].Year = y}

\* C4: for every table, whichever year columns it has, the load yields
\* exactly NumYears records per entity, one per year of [YearLo, YearHi],
\* and a year that is absent or empty in the file yields value = none.
C4_OneRecordPerYear ==
    (pc # "start" /\ csv.kind = "table" /\ Len(csv.rows) > 0 /\ AllCellsParse) =>
        /\ pc # "stopped"
        /\ \A i \in 1..Len(csv.rows) :
              /\ Cardinality({p \in 1..Len(processed_df) : processed_df[p].code = CodePool[i]})
                    = NumYears
              /\ \A y \in YearLo..YearHi :
                    /\ Cardinality(RecordsOf(i, y)) = 1
                    /\ (Str(y) \notin csv.cols \/ csv.rows[i].cells[Str(y)] = <<>>) =>
                          \A p \in RecordsOf(i, y) : IsNaN(processed_df[p].GDP)

\* C5 as stated: records are ordered by entity in load order, then by
\* ascending year within an entity.
C5_EntityMajorOrder ==
    Loaded =>
        \A p, q \in 1..Len(processed_df) :
            p < q =>
                \/ RowOf(processed_df[p]) < RowOf(processed_df[q])
                \/ /\ RowOf(processed_df[p]) = RowOf(processed_df[q])
                   /\ processed_df[p].Year < processed_df[q].Year

\* C5 amended: records are ordered by ascending year first, and by entity
\* in load order within one year.
C5_YearMajorOrder ==
    Loaded =>
        \A p, q \in 1..Len(processed_df) :
            p < q =>
                \/ processed_df[p].Year < processed_df[q].Year
                \/ /\ processed_df[p].Year = processed_df[q].Year
                   /\ RowOf(processed_df[p]) < RowOf(processed_df[q])

C5_Witness ==
    /\ pc = "loaded"
    /\ Len(raw_df) >= 2
    /\ Len(processed_df) = Len(raw_df) * NumYears
    /\ NumYears >= 2

\* the records of filtered_df that fall in pivot cell (c, y)
CellRecords(c, y) ==
    {p \in 1..Len(filtered_df) : filtered_df[p].name = c /\ filtered_df[p].Year = y}

LastOf(P) == CHOOSE p \in P : \A q \in P : q <= p

RECURSIVE SumAt(_)
\* the sum of the present scaled values at positions P of filtered_df
SumAt(P) ==
    IF P = {} THEN Num(0, 1)
    ELSE LET p == CHOOSE x \in P : TRUE
         IN IF IsNaN(filtered_df[p].GDP_Mds) THEN SumAt(P \ {p})
            ELSE Add(filtered_df[p].GDP_Mds, SumAt(P \ {p}))

Pivoted == pc \in {"pivoted", "done"}

\* C6 as stated: a pivot cell fed by several records holds the scaled value
\* of the last of them in input order.
C6_LastWriterWins ==
    Pivoted =>
        \A c \in pivot_df.index : \A y \in DOMAIN pivot_df.cells[c] :
            Cardinality(CellRecords(c, y)) > 1 =>
                pivot_df.cells[c][y] = filtered_df[LastOf(CellRecords(c, y))].GDP_Mds

\* C6 amended: a pivot cell fed by several records holds the sum of their
\* scaled values, missing values being skipped (0 when all are missing);
\* pivot does not fail.
C6_DuplicatesSummed ==
    Pivoted =>
        \A c \in pivot_df.index : \A y \in DOMAIN pivot_df.cells[c] :
            Cardinality(CellRecords(c, y)) > 1 =>
                pivot_df.cells[c][y] = SumAt(CellRecords(c, y))

C6_Witness ==
    /\ pc = "pivoted"
    /\ \E c \in pivot_df.index : \E y \in DOMAIN pivot_df.cells[c] :
          /\ Cardinality(CellRecords(c, y)) > 1
          /\ \A p \in CellRecords(c, y) : IsNum(filtered_df[p].GDP_Mds) /\ ~IsZero(filtered_df[p].GDP_Mds)

\* C7: a table with every year column and a cell that is not a number
\* still loads: that cell's record has value and scaled value none, and
\* every other cell of the table has its record.
C7_BadCellAbsorbed ==
    (pc # "start" /\ csv.kind = "table" /\ csv.cols = YearLabels /\ ~AllCellsParse) =>
        /\ pc # "stopped"
        /\ Len(processed_df) = Len(csv.rows) * NumYears
        /\ \A i \in 1..Len(csv.rows) : \A y \in YearLo..YearHi :
              /\ RecordsOf(i, y) # {}
              /\ ~(csv.rows[i].cells[Str(y)] = <<>> \/ IsNumeric(csv.rows[i].cells[Str(y)])) =>
                    \A p \in RecordsOf(i, y) :
                        IsNaN(processed_df[p].GDP) /\ IsNaN(processed_df[p].GDP_Mds)

LoadErrorShown == message \in {ERR_NOT_FOUND, ERR_LOADING}

\* C8: when the file is missing or unreadable the error is shown and the
\* run halts: no filter, pivot or growth result exists after a failed
\* load, and a missing file is reported differently from a malformed one.
C8_LoadErrorHalts ==
    /\ (pc # "start" /\ csv.kind \in {"missing", "malformed"}) => LoadErrorShown
    /\ LoadErrorShown =>
          /\ pc = "stopped"
          /\ filtered_df = <<>>
          /\ pivot_df = NoPivot
          /\ metrics = NoMetrics
    /\ (pc # "start" /\ csv.kind = "missing") => message = ERR_NOT_FOUND
    /\ (pc # "start" /\ csv.kind = "malformed") => message # ERR_NOT_FOUND

C8_Witness == pc = "stopped" /\ csv.kind = "missing" /\ message = ERR_NOT_FOUND

AxisYears == {pivot_df.columns[j] : j \in 1..Len(pivot_df.columns)}

\* C9: growth uses the minimum and the maximum year of the pivot's year
\* axis as start and end year, the same pair for every entity, and yields
\* one result per entity of the pivot.
C9_GrowthYears ==
    pc = "done" =>
        /\ DOMAIN metrics = pivot_df.index
        /\ \A c \in DOMAIN metrics :
              /\ metrics[c].prev_year \in AxisYears
              /\ metrics[c].latest_year \in AxisYears
              /\ \A y \in AxisYears :
                    metrics[c].prev_year <= y /\ y <= metrics[c].latest_year
              /\ metrics[c].previous_gdp = pivot_df.cells[c][metrics[c].prev_year]
              /\ metrics[c].current_gdp = pivot_df.cells[c][metrics[c].latest_year]

C9_Witness ==
    /\ pc = "done"
    /\ Cardinality(DOMAIN metrics) >= 2
    /\ \E c \in DOMAIN metrics : metrics[c].prev_year < metrics[c].latest_year
    /\ \E c \in DOMAIN metrics : metrics[c].previous_gdp # metrics[c].current_gdp

\* C10: no step after the load changes the long records (nor the raw
\* table), so they stay as load produced them through any sequence of
\* filter, pivot and growth steps, and a rerun with the same filters
\* yields the same filtered records.
C10_RecordsUnchanged ==
    /\ [][Loaded => (processed_df' = processed_df /\ raw_df' = raw_df)]_vars
    /\ []((repeat /\ Filtered) => filtered_df = prev_filtered)

C10_Witness ==
    /\ repeat
    /\ pc = "done"
    /\ Len(filtered_df) > 0
    /\ Len(filtered_df) < Len(processed_df)

====
